---- MODULE Spec2Model ----
(***************************************************************************)
(* The Streamlit dashboard of src/app.py as a state machine.               *)
(*                                                                         *)
(* Streamlit re-executes the whole script, top to bottom, on every user    *)
(* interaction.  One action of this model is therefore one interaction     *)
(* followed by the complete script run it triggers.  What survives from    *)
(* one run to the next is st.session_state.charts and the state of the     *)
(* widgets (the uploaded file, the X-axis selection, the range slider);    *)
(* df is recomputed by every run and the page is redrawn by every run.     *)
(***************************************************************************)
EXTENDS Integers, Sequences, FiniteSets, TLC

VARIABLES
    uploaded_file,  \* file_uploader widget: the file held, or NoFile
    x_axis,         \* "Select X-axis" selectbox
    slider,         \* <<min_val, max_val>> of the "Filter ... Range" slider
    df,             \* the table the last script run computed (or NoTable)
    charts,         \* st.session_state.charts
    out,            \* what the last script run showed or offered
    genLog,         \* history: the specs of the successful generate actions
    restored        \* history: the last run was a refilter of the same file
                    \* whose df holds a row the df before it lacked

vars == <<uploaded_file, x_axis, slider, df, charts, out, genLog, restored>>

----------------------------------------------------------------------------
(* Bounds and input sets *)

\* the ledger is unbounded in the program; generate is cut off at this length
MaxCharts == 2

NoFile == "NoFile"
NoField == "NoField"
NoTable == [columns |-> <<>>, dtypes |-> <<>>, rows |-> <<>>]
NoSlider == <<0, 0>>

\* the options of the "Select Chart Type" selectbox
ChartTypes ==
    {"Bar Chart", "Line Chart", "Scatter Plot", "Histogram", "Box Plot", "Pie Chart"}

\* the chart types generated in this model.  The script treats Bar, Line,
\* Scatter and Box alike (a plotting call on x and y, then the picture);
\* Histogram reads x only and Pie Chart leaves the export loop early.
GenerateTypes == {"Bar Chart", "Histogram", "Pie Chart"}

\* values of the colour picker: its default
Colors == {"#1f77b4"}

\* exceptions the plotting and document libraries raise (opaque to the script)
Exceptions == {"exc"}

\* the files a user uploads in this model, as pandas parses them:
\* sales.csv has a text column and an int64 column, in non-sorted row order;
\* prices.csv has one float64 column and shares no column with sales.csv
Files == {"sales.csv", "prices.csv"}

read_csv(file) ==
    IF file = "sales.csv"
    THEN [columns |-> <<"date", "sales">>,
          dtypes  |-> <<"object", "int64">>,
          rows    |-> << <<"d1", 3>>, <<"d2", 1>>, <<"d3", 2>> >>]
    ELSE [columns |-> <<"price">>,
          dtypes  |-> <<"float64">>,
          rows    |-> << <<2>>, <<1>> >>]

----------------------------------------------------------------------------
(* Tables *)

Range(s) == {s[i] : i \in DOMAIN s}

Columns(t) == Range(t.columns)

ColIndex(t, f) == CHOOSE i \in DOMAIN t.columns : t.columns[i] = f

\* df[x_axis]
Column(t, f) == [i \in DOMAIN t.rows |-> t.rows[i][ColIndex(t, f)]]

\* df[x_axis].dtype in [int, float]
IsNumeric(t, f) == t.dtypes[ColIndex(t, f)] \in {"int64", "float64"}

Min(S) == CHOOSE m \in S : \A v \in S : m <= v
Max(S) == CHOOSE m \in S : \A v \in S : v <= m

\* the slider's default value: (float(df[x].min()), float(df[x].max()))
FullRange(t, f) == <<Min(Range(Column(t, f))), Max(Range(Column(t, f)))>>

\* the positions the slider can take between its two ends: lo <= hi
SliderPositions(t, f) ==
    {<<lo, hi>> \in (FullRange(t, f)[1] .. FullRange(t, f)[2])
                    \X (FullRange(t, f)[1] .. FullRange(t, f)[2]) : lo <= hi}

\* the mask with the ends of the range left out
BooleanMaskExclusive(t, f, min_val, max_val) ==
    [t EXCEPT !.rows =
        SelectSeq(t.rows, LAMBDA r : r[ColIndex(t, f)] > min_val
                                     /\ r[ColIndex(t, f)] < max_val)]

\* df[(df[x_axis] >= min_val) & (df[x_axis] <= max_val)]
BooleanMask(t, f, min_val, max_val) ==
    [t EXCEPT !.rows =
        SelectSeq(t.rows, LAMBDA r : r[ColIndex(t, f)] >= min_val
                                     /\ r[ColIndex(t, f)] <= max_val)]

\* lines 51-60: the filter step of a script run
FilterStep(t, f, sl) ==
    IF IsNumeric(t, f) THEN BooleanMask(t, f, sl[1], sl[2]) ELSE t

\* lines 22-60: df as a script run computes it from the widgets
RunDf(file, f, sl) ==
    IF file = NoFile THEN NoTable ELSE FilterStep(read_csv(file), f, sl)

\* the slider a run shows for x-field f of table t when it is (re)created
FreshSlider(t, f) == IF IsNumeric(t, f) THEN FullRange(t, f) ELSE NoSlider

----------------------------------------------------------------------------
(* Charts *)

\* the tuple appended to st.session_state.charts
ChartSpec(chart_type, x, y, color) ==
    [chart_type |-> chart_type, x_axis |-> x, y_axis |-> y, color |-> color]

\* the columns a plotting call reads: histplot takes x only
FieldsRead(chart) ==
    IF chart.chart_type = "Histogram" THEN {chart.x_axis}
    ELSE {chart.x_axis, chart.y_axis}

\* a plotting call cannot succeed on a table that lacks a column it reads
CanRender(t, chart) == FieldsRead(chart) \subseteq Columns(t)

\* chart_{idx}.png: the image is determined by the spec and the table drawn
Image(t, chart) == [chart |-> chart, table |-> t]

\* f"{chart_type} - X: {x_axis}, Y: {y_axis}"
SlideTitle(chart) ==
    <<chart.chart_type, " - X: ", chart.x_axis, ", Y: ", chart.y_axis>>

\* lines 148-150 are skipped by the `continue` of the Pie Chart branch
SlidePictures(t, chart) ==
    IF chart.chart_type = "Pie Chart" THEN <<>> ELSE <<Image(t, chart)>>

\* one pass of the export loop over a chart
Slide(t, chart) == [title |-> SlideTitle(chart), pictures |-> SlidePictures(t, chart)]

\* df.to_csv(index=False): the header row, then one record per row
to_csv(t) == <<t.columns>> \o t.rows

----------------------------------------------------------------------------
(* The page of a run *)

\* line 166: no file is held
InfoPage == [kind |-> "info"]

\* lines 25-111 with no button pressed: the preview and the settings
PreviewPage == [kind |-> "preview"]

\* lines 64, 92
SuccessPage(chart_type) ==
    [kind |-> "success", subheader |-> <<chart_type, " Visualization">>,
     text |-> <<chart_type, " added to the dashboard!">>]

\* lines 64, 94: the subheader is written before the chart is drawn
ErrorPage(chart_type, e) ==
    [kind |-> "error", subheader |-> <<chart_type, " Visualization">>,
     text |-> <<"Error generating visualization: ", e>>]

\* lines 105-111: the CSV download of the run's df
CsvDownload(t) ==
    [kind |-> "csv", file_name |-> "filtered_dataset.csv", data |-> to_csv(t)]

\* the document when the Pie Chart branch leaves the loop before add_slide
PptDownloadWithoutPie(t, ledger) ==
    [kind |-> "pptx", file_name |-> "dashboard.pptx",
     slides |-> [i \in DOMAIN SelectSeq(ledger, LAMBDA c : c.chart_type # "Pie Chart")
                   |-> Slide(t, SelectSeq(ledger,
                                          LAMBDA c : c.chart_type # "Pie Chart")[i])]]

\* lines 152-163: prs.save and the download button for the saved document
PptDownload(t, ledger) ==
    [kind |-> "pptx", file_name |-> "dashboard.pptx",
     slides |-> [i \in DOMAIN ledger |-> Slide(t, ledger[i])]]

\* an exception leaves the export loop at iteration k: nothing catches it, the
\* run ends there and the page shows the exception itself
UncaughtPage(k, e) == [kind |-> "exception", failed |-> k, text |-> <<e>>]

----------------------------------------------------------------------------
(* The session *)

\* an append that keeps one entry per spec
appendOnce(ledger, chart) ==
    IF chart \in Range(ledger) THEN ledger ELSE Append(ledger, chart)

\* line 91: st.session_state.charts.append(...)
append(ledger, chart) == Append(ledger, chart)

\* the rows of table t that table s lacks
RowsMissingFrom(t, s) == Range(t.rows) \ Range(s.rows)

Init ==
    /\ uploaded_file = NoFile
    /\ x_axis = NoField
    /\ slider = NoSlider
    /\ df = NoTable
    /\ charts = <<>>
    /\ out = InfoPage
    /\ genLog = <<>>
    /\ restored = FALSE

\* a widget keeps its value from run to run while the parameters it is
\* created with stay the same, and starts from its default otherwise
KeptX(file) ==
    IF uploaded_file # NoFile
       /\ read_csv(uploaded_file).columns = read_csv(file).columns
    THEN x_axis
    ELSE read_csv(file).columns[1]

KeptSlider(file, f) ==
    IF /\ uploaded_file # NoFile
       /\ f = x_axis
       /\ IsNumeric(read_csv(uploaded_file), f)
       /\ IsNumeric(read_csv(file), f)
       /\ FullRange(read_csv(uploaded_file), f) = FullRange(read_csv(file), f)
    THEN slider
    ELSE FreshSlider(read_csv(file), f)

\* lines 16, 22-60: a file is put into the uploader
Upload(file) ==
    /\ uploaded_file' = file
    /\ x_axis' = KeptX(file)
    /\ slider' = KeptSlider(file, x_axis')
    /\ df' = RunDf(file, x_axis', slider')
    /\ out' = PreviewPage
    /\ restored' = FALSE
    /\ UNCHANGED <<charts, genLog>>

\* lines 16, 165-166: the file is taken out of the uploader
RemoveFile ==
    /\ uploaded_file # NoFile
    /\ uploaded_file' = NoFile
    /\ x_axis' = NoField
    /\ slider' = NoSlider
    /\ df' = RunDf(NoFile, NoField, NoSlider)
    /\ out' = InfoPage
    /\ restored' = FALSE
    /\ UNCHANGED <<charts, genLog>>

\* lines 41, 53-60: another X-axis is selected; its slider is a new widget
SelectX(f) ==
    /\ uploaded_file # NoFile
    /\ f \in Columns(read_csv(uploaded_file))
    /\ f # x_axis
    /\ x_axis' = f
    /\ slider' = FreshSlider(read_csv(uploaded_file), f)
    /\ df' = RunDf(uploaded_file, f, slider')
    /\ out' = PreviewPage
    /\ restored' = (RowsMissingFrom(df', df) # {})
    /\ UNCHANGED <<uploaded_file, charts, genLog>>

\* the slider moved, with the mask applied to the df of the run before
SetRangeOnFiltered(sl) ==
    /\ uploaded_file # NoFile
    /\ IsNumeric(read_csv(uploaded_file), x_axis)
    /\ sl \in SliderPositions(read_csv(uploaded_file), x_axis)
    /\ sl # slider
    /\ slider' = sl
    /\ df' = FilterStep(df, x_axis, sl)
    /\ out' = PreviewPage
    /\ restored' = (RowsMissingFrom(df', df) # {})
    /\ UNCHANGED <<uploaded_file, x_axis, charts, genLog>>

\* lines 53-60: the range slider is moved
SetRange(sl) ==
    /\ uploaded_file # NoFile
    /\ IsNumeric(read_csv(uploaded_file), x_axis)
    /\ sl \in SliderPositions(read_csv(uploaded_file), x_axis)
    /\ sl # slider
    /\ slider' = sl
    /\ df' = RunDf(uploaded_file, x_axis, sl)
    /\ out' = PreviewPage
    /\ restored' = (RowsMissingFrom(df', df) # {})
    /\ UNCHANGED <<uploaded_file, x_axis, charts, genLog>>

\* lines 63-92: "Generate Chart" is pressed and the chart is drawn
GenerateOk(chart_type, y, color) ==
    /\ uploaded_file # NoFile
    /\ Len(charts) < MaxCharts
    /\ y \in Columns(read_csv(uploaded_file))
    /\ df' = RunDf(uploaded_file, x_axis, slider)
    /\ CanRender(df', ChartSpec(chart_type, x_axis, y, color))
    /\ charts' = append(charts, ChartSpec(chart_type, x_axis, y, color))
    /\ out' = SuccessPage(chart_type)
    /\ genLog' = Append(genLog, ChartSpec(chart_type, x_axis, y, color))
    /\ restored' = FALSE
    /\ UNCHANGED <<uploaded_file, x_axis, slider>>

\* a failed generate with the append of line 91 placed before the drawing
GenerateFailAppends(chart_type, y, color, e) ==
    /\ uploaded_file # NoFile
    /\ Len(charts) < MaxCharts
    /\ y \in Columns(read_csv(uploaded_file))
    /\ df' = RunDf(uploaded_file, x_axis, slider)
    /\ charts' = append(charts, ChartSpec(chart_type, x_axis, y, color))
    /\ out' = ErrorPage(chart_type, e)
    /\ restored' = FALSE
    /\ UNCHANGED <<uploaded_file, x_axis, slider, genLog>>

\* lines 63-88, 93-94: "Generate Chart" is pressed and drawing raises
GenerateFail(chart_type, y, color, e) ==
    /\ uploaded_file # NoFile
    /\ y \in Columns(read_csv(uploaded_file))
    /\ df' = RunDf(uploaded_file, x_axis, slider)
    /\ out' = ErrorPage(chart_type, e)
    /\ restored' = FALSE
    /\ UNCHANGED <<uploaded_file, x_axis, slider, charts, genLog>>

\* lines 103-111: "Download CSV" is pressed
ExportCsv ==
    /\ uploaded_file # NoFile
    /\ df' = RunDf(uploaded_file, x_axis, slider)
    /\ out' = CsvDownload(df')
    /\ restored' = FALSE
    /\ UNCHANGED <<uploaded_file, x_axis, slider, charts, genLog>>

\* the slide export drawing from the table as loaded, before the filter
ExportPptOkUnfiltered ==
    /\ uploaded_file # NoFile
    /\ df' = RunDf(uploaded_file, x_axis, slider)
    /\ \A i \in DOMAIN charts : CanRender(df', charts[i])
    /\ out' = PptDownload(read_csv(uploaded_file), charts)
    /\ restored' = FALSE
    /\ UNCHANGED <<uploaded_file, x_axis, slider, charts, genLog>>

\* lines 114-163: "Download Dashboard as PPT" is pressed, every chart is drawn
ExportPptOk ==
    /\ uploaded_file # NoFile
    /\ df' = RunDf(uploaded_file, x_axis, slider)
    /\ \A i \in DOMAIN charts : CanRender(df', charts[i])
    /\ out' = PptDownload(df', charts)
    /\ restored' = FALSE
    /\ UNCHANGED <<uploaded_file, x_axis, slider, charts, genLog>>

\* a failed slide export that drops the entry it failed on and those after it
ExportPptFailTruncates(k, e) ==
    /\ uploaded_file # NoFile
    /\ k \in DOMAIN charts
    /\ df' = RunDf(uploaded_file, x_axis, slider)
    /\ \A i \in 1 .. (k - 1) : CanRender(df', charts[i])
    /\ out' = UncaughtPage(k, e)
    /\ charts' = SubSeq(charts, 1, k - 1)
    /\ restored' = FALSE
    /\ UNCHANGED <<uploaded_file, x_axis, slider, genLog>>

\* lines 114-146: "Download Dashboard as PPT" is pressed, drawing chart k raises
ExportPptFail(k, e) ==
    /\ uploaded_file # NoFile
    /\ k \in DOMAIN charts
    /\ df' = RunDf(uploaded_file, x_axis, slider)
    /\ \A i \in 1 .. (k - 1) : CanRender(df', charts[i])
    /\ out' = UncaughtPage(k, e)
    /\ restored' = FALSE
    /\ UNCHANGED <<uploaded_file, x_axis, slider, charts, genLog>>

\* the column names the selectboxes can offer
FieldNames == UNION {Columns(read_csv(file)) : file \in Files}

UploadStep == \E file \in Files : Upload(file)

SelectXStep == \E f \in FieldNames : SelectX(f)

SetRangeStep ==
    /\ uploaded_file # NoFile
    /\ IsNumeric(read_csv(uploaded_file), x_axis)
    /\ \E sl \in SliderPositions(read_csv(uploaded_file), x_axis) : SetRange(sl)

GenerateOkStep ==
    \E chart_type \in GenerateTypes, y \in FieldNames, color \in Colors :
        GenerateOk(chart_type, y, color)

GenerateFailStep ==
    \E chart_type \in GenerateTypes, y \in FieldNames, color \in Colors,
       e \in Exceptions : GenerateFail(chart_type, y, color, e)

ExportPptFailStep ==
    \E k \in DOMAIN charts, e \in Exceptions : ExportPptFail(k, e)

Next ==
    \/ UploadStep
    \/ RemoveFile
    \/ SelectXStep
    \/ SetRangeStep
    \/ GenerateOkStep
    \/ GenerateFailStep
    \/ ExportCsv
    \/ ExportPptOk
    \/ ExportPptFailStep

Spec == Init /\ [][Next]_vars

----------------------------------------------------------------------------
(* Session states of the design: Empty, Loaded, Active *)

SessionState ==
    IF uploaded_file = NoFile THEN "Empty"
    ELSE IF charts = <<>> THEN "Loaded" ELSE "Active"

ExportStep == ExportCsv \/ ExportPptOk \/ ExportPptFailStep

----------------------------------------------------------------------------
(* C1 *)

\* C1: whatever generate, refilter and export actions have run, the ledger is
\* exactly the sequence of specs the generate actions appended, in generation
\* order and of the same length; nothing is reordered, removed or deduplicated.
C1_LedgerIsGenerationLog == charts = genLog

\* two identical specs are two entries, seen at an export after a refilter
C1_Witness ==
    /\ Len(charts) = 2
    /\ charts[1] = charts[2]
    /\ out.kind = "pptx"
    /\ slider # FreshSlider(read_csv(uploaded_file), x_axis)

----------------------------------------------------------------------------
(* C2 *)

\* C2 as stated: when drawing fails during a generate action, the error is
\* reported and the spec of that action is still appended to the ledger.
C2_FailedSpecRecorded ==
    [][GenerateFailStep =>
        /\ out'.kind = "error"
        /\ \E chart_type \in ChartTypes, y \in FieldNames, color \in Colors :
              charts' = Append(charts, ChartSpec(chart_type, x_axis, y, color))]_vars

\* C2 amended: when drawing fails during a generate action, the error is
\* reported with the text of line 94 and the ledger is left as it was: the
\* spec of the failed action is not recorded.
C2_FailedSpecNotRecorded ==
    [][GenerateFailStep =>
        /\ out'.kind = "error"
        /\ out'.text[1] = "Error generating visualization: "
        /\ out'.text[2] \in Exceptions
        /\ charts' = charts]_vars

\* a failed generate on a ledger that already holds an entry
C2_Witness ==
    /\ out.kind = "error"
    /\ Len(charts) = 1

----------------------------------------------------------------------------
(* C3 *)

\* C3: an export whose drawings all succeed offers a document with exactly one
\* slide per ledger entry, the i-th slide titled
\* "{kind} - X: {x_field}, Y: {y_field}" from the i-th entry.
C3_OneTitledSlidePerEntry ==
    out.kind = "pptx" =>
        /\ Len(out.slides) = Len(charts)
        /\ \A i \in DOMAIN charts :
              out.slides[i].title =
                  <<charts[i].chart_type, " - X: ", charts[i].x_axis,
                    ", Y: ", charts[i].y_axis>>

\* a document of two slides for two entries of different kinds and fields
C3_Witness ==
    /\ out.kind = "pptx"
    /\ Len(charts) = 2
    /\ charts[1].chart_type # charts[2].chart_type
    /\ charts[1].x_axis # charts[1].y_axis

----------------------------------------------------------------------------
(* C4 *)

\* C4: every slide of an exported document holds exactly one chart image,
\* whatever the chart kind of its entry.
C4_OneImagePerSlide ==
    out.kind = "pptx" =>
        \A i \in DOMAIN out.slides : Len(out.slides[i].pictures) = 1

----------------------------------------------------------------------------
(* C5 *)

\* C5: a refilter (a run that changes the filtered field or its range on the
\* file held) leaves the ledger entries as they are, and both exports use
\* the table as filtered by the widgets at the export: the CSV holds that
\* table and every image of the slide document is drawn from it.
C5_ExportsUseCurrentTable ==
    [][/\ (uploaded_file' = uploaded_file /\ <<x_axis', slider'>> # <<x_axis, slider>>)
            => charts' = charts
       /\ ExportCsv =>
            /\ df' = FilterStep(read_csv(uploaded_file), x_axis, slider)
            /\ out'.data = <<df'.columns>> \o df'.rows
       /\ ExportPptOk =>
            /\ df' = FilterStep(read_csv(uploaded_file), x_axis, slider)
            /\ \A i \in DOMAIN charts :
                 \A j \in DOMAIN out'.slides[i].pictures :
                    /\ out'.slides[i].pictures[j].table = df'
                    /\ out'.slides[i].pictures[j].chart = charts[i]]_vars

\* an entry generated with X-axis "date", hence under the whole table (a text
\* field is not filtered), is exported after a refilter on "sales" has dropped
\* rows: its image is drawn from the table of the export
C5_Witness ==
    /\ out.kind = "pptx"
    /\ x_axis = "sales"
    /\ Len(df.rows) < Len(read_csv(uploaded_file).rows)
    /\ \E i \in DOMAIN charts :
          /\ charts[i].x_axis = "date"
          /\ Len(out.slides[i].pictures) = 1
          /\ out.slides[i].pictures[1].table = df

----------------------------------------------------------------------------
(* C6 *)

\* C6: on a numeric field with min <= max the filter step yields exactly the
\* rows of the loaded table whose value lies in [min, max], all columns kept
\* and row order unchanged; on a field that is not numeric it yields the
\* loaded table unchanged.
C6_FilterKeepsRowsInRange ==
    uploaded_file # NoFile =>
        LET t == read_csv(uploaded_file)
            c == CHOOSE i \in DOMAIN t.columns : t.columns[i] = x_axis
            Kept == {i \in DOMAIN t.rows :
                        slider[1] <= t.rows[i][c] /\ t.rows[i][c] <= slider[2]}
            \* the kept rows in the order of the file
            KeptRows == [j \in 1 .. Cardinality(Kept) |->
                            t.rows[CHOOSE i \in Kept :
                                     Cardinality({k \in Kept : k < i}) = j - 1]]
        IN  IF t.dtypes[c] \in {"int64", "float64"}
            THEN /\ slider[1] <= slider[2]
                 /\ df.columns = t.columns
                 /\ df.dtypes = t.dtypes
                 /\ df.rows = KeptRows
            ELSE df = t

\* a range that ends on a value of the column keeps the rows at both ends,
\* drops the row between them in the file, and keeps the file's order
C6_Witness ==
    /\ uploaded_file = "sales.csv"
    /\ x_axis = "sales"
    /\ slider = <<2, 3>>
    /\ df.rows = << <<"d1", 3>>, <<"d3", 2>> >>

----------------------------------------------------------------------------
(* C7 *)

\* C7: when drawing entry k raises during the slide export, no document is
\* offered and the error shown names entry k's kind and fields.
C7_ExportErrorNamesEntry ==
    out.kind = "exception" =>
        /\ "slides" \notin DOMAIN out
        /\ {charts[out.failed].chart_type, charts[out.failed].x_axis,
            charts[out.failed].y_axis} \subseteq Range(out.text)

----------------------------------------------------------------------------
(* C8 *)

\* C8: an export, CSV or slide deck, completed or stopped part-way through the
\* ledger, leaves the ledger and the current table as they were and makes no
\* session state transition.
C8_ExportIsReadOnly ==
    [][ExportStep =>
        /\ charts' = charts
        /\ df' = df
        /\ uploaded_file' = uploaded_file
        /\ SessionState' = SessionState]_vars

\* a slide export stopped at the second of two entries
C8_Witness ==
    /\ out.kind = "exception"
    /\ Len(charts) = 2
    /\ out.failed = 2

----------------------------------------------------------------------------
(* C9 *)

\* C9: after any sequence of refilters the current table is the loaded table
\* filtered by the latest field and range alone; filters do not compose.
C9_LatestFilterAlone ==
    uploaded_file # NoFile =>
        df = FilterStep(read_csv(uploaded_file), x_axis, slider)

\* a refilter has brought back a row that the range before it excluded
C9_Witness ==
    /\ restored
    /\ x_axis = "sales"
    /\ Len(df.rows) < Len(read_csv(uploaded_file).rows)

----------------------------------------------------------------------------
(* C10 *)

\* C10: whenever a table is present, the x_field and y_field of every ledger
\* entry are columns of the current table.
C10_LedgerFieldsInTable ==
    uploaded_file # NoFile =>
        \A i \in DOMAIN charts :
            {charts[i].x_axis, charts[i].y_axis} \subseteq Columns(df)

====
